---- MODULE Spec2Model ----
(***************************************************************************)
(* Guest memory snapshots (src/vmm/src/memory_snapshot.rs): describe, dump, *)
(* dump_dirty, the layered restore of a GuestMemoryMmap, register_for_upf   *)
(* and load_working_set.                                                    *)
(*                                                                          *)
(* Sizes, offsets and addresses are in bytes.  Slots are numbered from 1    *)
(* here where the code numbers them from 0.  A 64-bit bitmap word is the    *)
(* set of its set bit positions (0..63), so that `(v >> j) & 1 != 0` is     *)
(* `j \in v`.                                                               *)
(***************************************************************************)
EXTENDS Integers, Sequences, FiniteSets, TLC

\* ------------------------------------------------------------------ bounds
\* The host page size (sysconf) scaled down to a few bytes.
PageSize == 2
\* The largest number of regions of a collection.
MaxRegions == 2
\* The address gap (in pages) a layout may leave between two regions.
GapPages == 1
\* The largest number of overlay and working-set ranges of one restore call.
MaxRanges == 2
\* The longest overlay or working-set range, in pages; also the number of
\* host pages modelled on either side of the base mapping.
MaxRangeLen == 2
\* The connections processes make to the socket.
MaxPeers == 2
\* The seek calls of a dump, counted from the first, one of which may fail.
MaxSeekFault == 2

\* Bits of one dirty bitmap word.
WordBits == 64

\* Region sizes in pages: the two-page region of the tests, a region that
\* fills a bitmap word exactly and a region one page longer.
RegionPages == {2, WordBits, WordBits + 1}

\* ----------------------------------------------------------------- helpers
RECURSIVE SumSeq(_)
SumSeq(s) == IF s = << >> THEN 0 ELSE Head(s) + SumSeq(Tail(s))

Max(a, b) == IF a >= b THEN a ELSE b

\* Sequences over S of length lo..hi.
SeqsOf(S, lo, hi) == UNION {[1..n -> S] : n \in lo..hi}

VARIABLES
    regions,        \* the live collection: sequence of [base_address, size]
    pc,             \* which operation the caller has performed last
    memory_state,   \* the GuestMemoryState describe returned
    dirty_bitmap,   \* the DirtyBitmap handed to dump_dirty (slot -> words)
    writer,         \* the file the dump went to
    dump_kind,      \* "none", "dump" or "dump_dirty": the call that wrote it
    dump_result,    \* "none", "Ok" or the Error variant of the dump
    restore_args,   \* the arguments of the restore call
    restored,       \* what restore did and returned
    upf_pc,         \* where the register_for_upf call stands
    upf_slot,       \* the region its closure is running for
    upf_result,     \* how the register_for_upf call ended
    uffds,          \* the userfaultfd descriptors created, with their ranges
    sock,           \* the socket path: "absent", "listening" or "stale"
    peer,           \* the external process: connections made, messages received
    resident,       \* the <<slot, page>> pairs present in the page tables
    faulting,       \* the pages with a fault waiting at a descriptor
    loader,         \* the load_working_set call: the pages it has yet to touch
    trace           \* the calls and page events so far, in order

core_vars == <<regions, pc, memory_state, dirty_bitmap, writer,
               dump_kind, dump_result, restore_args, restored>>
upf_vars == <<upf_pc, upf_slot, upf_result, uffds, sock, peer, resident,
              faulting, loader, trace>>
vars == <<core_vars, upf_vars>>

\* ------------------------------------------------------- the live collection
NumRegions == Len(regions)
Slots == 1..NumRegions
region_len(slot) == regions[slot].size
NumPages(slot) == (region_len(slot) + PageSize - 1) \div PageSize
TotalSize == SumSeq([s \in Slots |-> region_len(s)])

\* The byte at offset b of the region in `slot`: the guest's memory, here
\* non-zero bytes that differ between neighbours and between regions.
RegionByte(slot, b) == 1 + ((slot * 101 + b) % 255)

\* ---------------------------------------------------------------- describe
\* `offset += region.len()`
OffsetAfter(offset, region) == offset + region.size

region_state_at_address(region, offset) ==
    [base_address |-> region.base_address, size |-> region.size,
     offset |-> region.base_address]

\* `GuestMemoryRegionState { base_address, size, offset }`
region_state(region, offset) ==
    [base_address |-> region.base_address, size |-> region.size, offset |-> offset]

RECURSIVE describe_from(_, _, _)
describe_from(slot, offset, acc) ==
    IF slot > NumRegions THEN acc
    ELSE describe_from(slot + 1, OffsetAfter(offset, regions[slot]),
                       Append(acc, region_state(regions[slot], offset)))

describe == describe_from(1, 0, << >>)

\* ------------------------------------------------------------------ writer
\* A file opened for writing: `data` holds the bytes written so far (an
\* offset below `len` that was never written is a hole and reads as 0),
\* `log` the seek and write calls it has received.  fail_seek = n > 0 is a
\* file whose n-th seek returns an error.
EmptyFile == [pos |-> 0, len |-> 0, data |-> << >>, log |-> << >>, fail_seek |-> 0]
FaultyFile(n) == [EmptyFile EXCEPT !.fail_seek = n]

SeeksOf(w) == {i \in DOMAIN w.log : w.log[i][1] \in {"seek", "seek failed"}}
seek_fails(w) == w.fail_seek # 0 /\ Cardinality(SeeksOf(w)) + 1 = w.fail_seek

seek(w, target) ==
    IF seek_fails(w) THEN [w EXCEPT !.log = Append(@, <<"seek failed", target>>)]
    ELSE [w EXCEPT !.pos = target, !.log = Append(@, <<"seek", target>>)]

\* region.write_all_to(MemoryRegionAddress(start), writer, count): count
\* bytes of the region from `start` go to the writer's position; a range
\* that leaves the region is an error and writes nothing.
write_all_to(slot, start, w, count) ==
    IF start + count > region_len(slot)
    THEN [err |-> TRUE, w |-> w]
    ELSE [err |-> FALSE,
          w |-> [pos |-> w.pos + count,
                 len |-> Max(w.len, w.pos + count),
                 data |-> [b \in (DOMAIN w.data) \cup (w.pos .. w.pos + count - 1) |->
                              IF b >= w.pos /\ b < w.pos + count
                              THEN RegionByte(slot, start + (b - w.pos))
                              ELSE w.data[b]],
                 log |-> Append(w.log, <<"write", w.pos, count>>),
                 fail_seek |-> w.fail_seek]]

\* What a reader finds at offset b of a file.
FileByte(w, b) == IF b \in DOMAIN w.data THEN w.data[b] ELSE 0

\* -------------------------------------------------------------------- dump
dump_region_first_page(slot, w) == write_all_to(slot, 0, w, PageSize)

\* `region.write_all_to(MemoryRegionAddress(0), writer, region.len() as usize)`
dump_region(slot, w) == write_all_to(slot, 0, w, region_len(slot))

RECURSIVE dump_from(_, _)
dump_from(slot, w) ==
    IF slot > NumRegions THEN [err |-> FALSE, w |-> w]
    ELSE LET r == dump_region(slot, w)
         IN  IF r.err THEN r ELSE dump_from(slot + 1, r.w)

dump(w) == dump_from(1, w)

\* -------------------------------------------------------------- dump_dirty
SeekTargetNoBase(writer_offset, page_offset) == page_offset

\* `SeekFrom::Start(writer_offset + page_offset as u64)`
SeekTarget(writer_offset, page_offset) == writer_offset + page_offset

FlushAtEndNever(st) == FALSE

\* `if write_size > 0` after the loops: a run still open is written out.
FlushAtEnd(st) == st.write_size > 0

\* The body of the inner loop for page k = i * 64 + j.
\* st = [w, write_size, dirty_batch_start, err, panic]; after a failed write
\* the closure has returned and nothing more happens; `.unwrap()` on a
\* failed seek panics, which ends the call as well.
page_step(st, slot, bitmap, k, writer_offset) ==
    IF st.err THEN st
    ELSE LET i == k \div WordBits
             j == k % WordBits
             is_dirty_page == j \in bitmap[i + 1]
             page_offset == ((i * WordBits) + j) * PageSize
         IN  IF is_dirty_page
             THEN LET s1 == IF st.write_size = 0
                            THEN [st EXCEPT
                                    !.w = seek(@, SeekTarget(writer_offset, page_offset)),
                                    !.dirty_batch_start = page_offset]
                            ELSE st
                  IN  IF st.write_size = 0 /\ seek_fails(st.w)
                      THEN [st EXCEPT !.w = s1.w, !.err = TRUE, !.panic = TRUE]
                      ELSE [s1 EXCEPT !.write_size = @ + PageSize]
             ELSE IF st.write_size > 0
             THEN LET r == write_all_to(slot, st.dirty_batch_start, st.w, st.write_size)
                  IN  IF r.err THEN [st EXCEPT !.err = TRUE]
                      ELSE [st EXCEPT !.w = r.w, !.write_size = 0]
             ELSE st

\* The two loops over the words and the bits 0..63 of each: page_step for
\* k = lo, lo + 1, ..., hi - 1 in this order (split in halves to keep the
\* evaluation shallow).
RECURSIVE scan_bitmap(_, _, _, _, _, _)
scan_bitmap(st, slot, bitmap, lo, hi, writer_offset) ==
    IF lo >= hi THEN st
    ELSE IF hi = lo + 1 THEN page_step(st, slot, bitmap, lo, writer_offset)
    ELSE LET mid == (lo + hi) \div 2
             left == scan_bitmap(st, slot, bitmap, lo, mid, writer_offset)
         IN  IF left.err THEN left
             ELSE scan_bitmap(left, slot, bitmap, mid, hi, writer_offset)

\* The closure of with_regions_mut for one region.
dump_dirty_region(slot, w, bitmap, writer_offset) ==
    LET st == scan_bitmap([w |-> w, write_size |-> 0, dirty_batch_start |-> 0,
                           err |-> FALSE, panic |-> FALSE], slot, bitmap, 0,
                          Len(bitmap) * WordBits, writer_offset)
    IN  IF st.err THEN [err |-> TRUE, w |-> st.w, panic |-> st.panic]
        ELSE IF FlushAtEnd(st)
        THEN write_all_to(slot, st.dirty_batch_start, st.w, st.write_size)
        ELSE [err |-> FALSE, w |-> st.w]

writer_offset_kept(writer_offset, slot) == writer_offset

\* `writer_offset += region.len()`
writer_offset_after(writer_offset, slot) == writer_offset + region_len(slot)

RECURSIVE dump_dirty_from(_, _, _, _)
dump_dirty_from(slot, w, bitmaps, writer_offset) ==
    IF slot > NumRegions THEN [err |-> FALSE, w |-> w]
    ELSE LET r == dump_dirty_region(slot, w, bitmaps[slot], writer_offset)
         IN  IF r.err THEN r
             ELSE dump_dirty_from(slot + 1, r.w, bitmaps,
                                  writer_offset_after(writer_offset, slot))

dump_dirty(w, bitmaps) == dump_dirty_from(1, w, bitmaps, 0)

\* ----------------------------------------------------------------- restore
\* The host address space around the base mapping, in pages relative to the
\* address MmapRegion::build returned (`addr`): page q is host address
\* addr + q * page_size.  Each page is backed by [file, off]: "anon" is
\* zero-filled memory, "foreign" is whatever else the process has there,
\* and a file name means the page shows the file's bytes from offset `off`.
BasePages(size) == (size + PageSize - 1) \div PageSize
HostPages(size) == (0 - MaxRangeLen) .. (BasePages(size) - 1 + MaxRangeLen)
Foreign == [file |-> "foreign", off |-> 0]

\* The files restore can open.  The memory file is the file the dump wrote;
\* the overlay file is a memory image of the region, the working-set file
\* a flat concatenation of ranges; their bytes differ from the region's.
FileLen(file, size) ==
    CASE file = "mem" -> writer.len
      [] file = "overlay" -> (BasePages(size) + MaxRangeLen) * PageSize
      [] file = "ws" -> MaxRanges * MaxRangeLen * PageSize
FileContent(file, at) ==
    CASE file = "mem" -> FileByte(writer, at)
      [] file = "overlay" -> 1 + ((at + 85) % 255)
      [] file = "ws" -> 1 + ((at + 170) % 255)

\* Reading a byte of a mapped file page: the file's byte, 0 in the rest of
\* the page that holds the end of the file, and a fault (SIGBUS) on a page
\* wholly past the end.
SIGBUS == 0 - 1
MappedByte(backing, x, size) ==
    CASE backing.file = "anon" -> 0
      [] backing.file = "foreign" -> SIGBUS
      [] OTHER ->
            IF backing.off + x < FileLen(backing.file, size)
            THEN FileContent(backing.file, backing.off + x)
            ELSE IF backing.off < FileLen(backing.file, size) THEN 0 ELSE SIGBUS

\* libc::mmap(addr + page * page_size, length as usize, .., MAP_FIXED |
\* MAP_NORESERVE | MAP_PRIVATE, fd, file_off): MAP_FAILED for a length of 0
\* (EINVAL), for a negative i64 length (as usize it exceeds the address
\* space, ENOMEM) and for a negative file offset (EINVAL); otherwise the
\* pages [page, page + length / page_size) now show the file from file_off,
\* whatever was mapped there before.  `addr.offset(..)` is taken as plain
\* address arithmetic, also when it leaves the base mapping.
mmap_fixed_keeps_layers(space, page, length, file, file_off) ==
    IF length <= 0 \/ file_off < 0
    THEN [failed |-> TRUE, space |-> space]
    ELSE [failed |-> FALSE,
          space |-> [q \in DOMAIN space |->
                        IF q >= page /\ q < page + (length \div PageSize)
                           /\ space[q].file \notin {"overlay", "ws"}
                        THEN [file |-> file, off |-> file_off + (q - page) * PageSize]
                        ELSE space[q]]]

mmap_fixed(space, page, length, file, file_off) ==
    IF length <= 0 \/ file_off < 0
    THEN [failed |-> TRUE, space |-> space]
    ELSE [failed |-> FALSE,
          space |-> [q \in DOMAIN space |->
                        IF q >= page /\ q < page + (length \div PageSize)
                        THEN [file |-> file, off |-> file_off + (q - page) * PageSize]
                        ELSE space[q]]]

BaseBackingAnon(mem_file_path, offset) == "anon"

\* `if mem_file_path ... .eq("")`: no memfile gives an anonymous mapping,
\* otherwise the mapping is backed by the file.
BaseBacking(mem_file_path, offset) == IF mem_file_path = "" THEN "anon" ELSE mem_file_path

\* MmapRegion::build(file_offset, region.size, ..): the base layer.
base_layer(args, region) ==
    [q \in HostPages(region.size) |->
        IF q >= 0 /\ q < BasePages(region.size)
        THEN [file |-> BaseBacking(args.mem_file_path, region.offset),
              off |-> region.offset + q * PageSize]
        ELSE Foreign]

OverlayFileOffsetZero(offset) == 0

\* `offset as libc::off_t`: the overlay file is read at the guest offset.
OverlayFileOffset(offset) == offset

WsFileOffAfterPages(file_off, len) == file_off + (len \div PageSize)

\* `file_off += len as u64`
WsFileOffAfter(file_off, len) == file_off + len

\* `if ret == libc::MAP_FAILED { return Err(..) }`
map_failed_never(ret) == FALSE
map_failed(ret) == ret.failed

\* An overlay loop that reads the overlay file front to back, as the
\* working-set loop does, instead of at each range's own offset.
RECURSIVE overlay_layer_running(_, _)
overlay_layer_running(st, ranges) ==
    IF st.failed \/ ranges = << >> THEN st
    ELSE LET off == Head(ranges)[1]
             len == Head(ranges)[2]
             file_off == PageSize * SumSeq([i \in DOMAIN st.calls |-> st.calls[i].pages])
             ret == mmap_fixed(st.space, off, len * PageSize, "overlay", file_off)
         IN  IF ret.failed \/ off < 0
             THEN [st EXCEPT !.failed = TRUE, !.attempts = @ + 1]
             ELSE overlay_layer_running(
                    [st EXCEPT !.space = ret.space, !.attempts = @ + 1,
                               !.calls = Append(@, [layer |-> "overlay", page |-> off,
                                                    pages |-> len,
                                                    file_off |-> file_off])],
                    Tail(ranges))

\* st = [space, calls, failed, attempts]: the address space, the fixed
\* mappings established so far, whether an mmap returned MAP_FAILED and the
\* number of mmap calls made on top of the base layer.
\* `for (off, len) in overlay_regions`, in the map's iteration order.
RECURSIVE overlay_layer(_, _)
overlay_layer(st, ranges) ==
    IF st.failed \/ ranges = << >> THEN st
    ELSE LET off == Head(ranges)[1]
             len == Head(ranges)[2]
             offset == off * PageSize
             length == len * PageSize
             ret == mmap_fixed(st.space, off, length, "overlay", OverlayFileOffset(offset))
         IN  IF map_failed(ret) THEN [st EXCEPT !.failed = TRUE, !.attempts = @ + 1]
             ELSE overlay_layer(
                    [st EXCEPT !.space = ret.space, !.attempts = @ + 1,
                               !.calls = Append(@, [layer |-> "overlay", page |-> off,
                                                    pages |-> len,
                                                    file_off |-> OverlayFileOffset(offset)])],
                    Tail(ranges))

\* `for region in ws_regions`
RECURSIVE ws_layer(_, _, _)
ws_layer(st, ranges, file_off) ==
    IF st.failed \/ ranges = << >> THEN st
    ELSE LET off == Head(ranges)[1] * PageSize
             len == Head(ranges)[2] * PageSize
             ret == mmap_fixed(st.space, Head(ranges)[1], len, "ws", file_off)
         IN  IF map_failed(ret) THEN [st EXCEPT !.failed = TRUE, !.attempts = @ + 1]
             ELSE ws_layer(
                    [st EXCEPT !.space = ret.space, !.attempts = @ + 1,
                               !.calls = Append(@, [layer |-> "ws", page |-> Head(ranges)[1],
                                                    pages |-> Head(ranges)[2],
                                                    file_off |-> file_off])],
                    Tail(ranges), WsFileOffAfter(file_off, len))

\* The block after the loop, `if load_ws { thread::Builder::new()
\* .name("fc_ws_loader").spawn(..) }`, is commented out: restore starts no
\* thread and reads no page.
background_loader_enabled(args) ==
    IF args.load_ws
    THEN [threads |-> {"fc_ws_loader"},
          touched |-> {args.ws_regions[i][1] : i \in DOMAIN args.ws_regions}]
    ELSE [threads |-> {}, touched |-> {}]
background_loader(args) == [threads |-> {}, touched |-> {}]

\* restore(mem_file_path, state, enable_user_page_faults, overlay_file_path,
\* overlay_regions, ws_file_path, ws_regions, load_ws, fadvise).  args.overlay_regions is the map in the
\* order the call iterates it.  args.past_eof is what MmapRegion::build does
\* with a file shorter than the region: refuse it, or map it.
restore(args) ==
    LET state == args.state
        region == state.regions[1]
    IN  IF Len(state.regions) # 1
        THEN [status |-> "panic", at |-> "assert!(state.regions.len() == 1)"]
        ELSE IF region.offset # 0
        THEN [status |-> "panic", at |-> "assert!(region.offset == 0)"]
        ELSE IF /\ args.mem_file_path # ""
                /\ region.offset + region.size > FileLen(args.mem_file_path, region.size)
                /\ args.past_eof = "refused"
        THEN [status |-> "Err", error |-> "CreateRegion"]
        ELSE LET base == [space |-> base_layer(args, region), calls |-> << >>,
                          failed |-> FALSE, attempts |-> 0]
                 over == IF args.overlay_file_path # ""
                         THEN overlay_layer(base, args.overlay_regions)
                         ELSE base
                 ws == IF over.failed \/ args.ws_file_path = ""
                       THEN over
                       ELSE ws_layer(over, args.ws_regions, 0)
             IN  IF ws.failed
                 THEN [status |-> "Err", error |-> "OverlayRegions",
                       space |-> ws.space, calls |-> ws.calls, size |-> region.size,
                       attempts |-> ws.attempts]
                 ELSE [status |-> "Ok",
                       regions |-> << [base_address |-> region.base_address,
                                       size |-> region.size] >>,
                       threads |-> background_loader(args).threads,
                       touched |-> background_loader(args).touched,
                       space |-> ws.space, calls |-> ws.calls, size |-> region.size,
                       attempts |-> ws.attempts]

\* Byte b of the restored region, as a guest read finds it.
RestoredByte(b) ==
    MappedByte(restored.space[b \div PageSize], b % PageSize, restored.size)

\* The ranges a caller passes, for a region of n pages: inside the region,
\* across its end, past its end, across its start, and lengths 0 and -1.
RangeChoices(n) ==
    {<<0, 1>>, <<1, 1>>, <<0, MaxRangeLen>>, <<n - 1, MaxRangeLen>>, <<n, 1>>,
     <<0 - 1, MaxRangeLen>>, <<0, 0>>, <<1, 0 - 1>>}

\* A HashMap<i64, i64> in some iteration order: no key twice.
MapOrders(S, hi) ==
    {m \in SeqsOf(S, 0, hi) : \A i, j \in DOMAIN m : i # j => m[i][1] # m[j][1]}

LayerInputs(n) ==
    {io \in UNION {MapOrders(RangeChoices(n), k) \X SeqsOf(RangeChoices(n), 0, MaxRanges - k)
                    : k \in 0 .. MaxRanges} : TRUE}

PlainInputs == {<< << >>, << >> >>}

\* ------------------------------------------------------------------ inputs
\* Layouts: 1..MaxRegions regions in address order, first at 0, each of a
\* size in RegionPages, all separated by the same gap.
Layout(sizes, gap) ==
    [i \in 1..Len(sizes) |->
        [base_address |-> SumSeq(SubSeq(sizes, 1, i - 1)) * PageSize
                            + (i - 1) * gap * PageSize,
         size |-> sizes[i] * PageSize]]

Layouts ==
    {Layout(sizes, gap) : sizes \in SeqsOf(RegionPages, 1, MaxRegions),
                          gap \in {0, GapPages}}

\* Dirty page sets of a region of n pages, one bit per page: any choice of
\* the last page of the first word, the first page of the second word and
\* the region's last page, with the other pages all clean or all dirty.
ProbePages(n) == {WordBits - 1, WordBits, n - 1} \cap (0 .. n - 1)
DirtySets(n) ==
    {probe \cup fill : probe \in SUBSET ProbePages(n),
                       fill \in {{}, (0 .. n - 1) \ ProbePages(n)}}

WordsOf(dirty, n) ==
    [i \in 1 .. ((n + WordBits - 1) \div WordBits) |->
        {j \in 0 .. WordBits - 1 : (i - 1) * WordBits + j \in dirty}]

\* The dirty pages a bitmap (sequence of words) marks.
DirtyPagesOf(bitmap) ==
    {k \in 0 .. Len(bitmap) * WordBits - 1 :
        (k % WordBits) \in bitmap[(k \div WordBits) + 1]}

Bitmaps ==
    {[s \in Slots |-> WordsOf(d[s], NumPages(s))] :
        d \in {x \in [Slots -> UNION {DirtySets(NumPages(s)) : s \in Slots}] :
                 \A s \in Slots : x[s] \in DirtySets(NumPages(s))}}

NoRestore == [status |-> "none"]

\* No register_for_upf or load_working_set call has been made; nothing of
\* the collection has been touched yet.
NoPeer == [connects |-> 0, pending |-> 0, accepted |-> 0, inbox |-> << >>]
UpfIdle ==
    /\ upf_pc = "idle"
    /\ upf_slot = 0
    /\ upf_result = [status |-> "none"]
    /\ uffds = << >>
    /\ sock = "absent"
    /\ peer = NoPeer
    /\ resident = {}
    /\ faulting = {}
    /\ loader = [pc |-> "idle", todo |-> << >>]
    /\ trace = << >>

Init ==
    /\ regions \in Layouts
    /\ pc = "live"
    /\ memory_state = << >>
    /\ dirty_bitmap = << >>
    /\ writer = EmptyFile
    /\ dump_kind = "none"
    /\ dump_result = "none"
    /\ restore_args = << >>
    /\ restored = NoRestore
    /\ UpfIdle

\* ----------------------------------------------------------------- actions
Describe ==
    /\ pc = "live"
    /\ memory_state' = describe
    /\ pc' = "described"
    /\ UNCHANGED <<regions, dirty_bitmap, writer, dump_kind,
                   dump_result, restore_args, restored>>
    /\ UNCHANGED upf_vars

\* guest_memory.dump(&mut file) into a fresh file.
Dump ==
    /\ pc = "described"
    /\ LET r == dump(EmptyFile)
       IN  /\ writer' = r.w
           /\ dump_result' = IF r.err THEN "WriteMemory" ELSE "Ok"
    /\ dump_kind' = "dump"
    /\ pc' = "dumped"
    /\ UNCHANGED <<regions, memory_state, dirty_bitmap,
                   restore_args, restored>>
    /\ UNCHANGED upf_vars

\* guest_memory.dump_dirty(&mut file, &dirty_bitmap) into the file.
DumpDirtyInto(file) ==
    /\ pc = "described"
    /\ \E bm \in Bitmaps :
          /\ dirty_bitmap' = bm
          /\ LET r == dump_dirty(file, bm)
             IN  /\ writer' = r.w
                 /\ dump_result' = IF "panic" \in DOMAIN r /\ r.panic THEN "panic"
                                   ELSE IF r.err THEN "WriteMemory" ELSE "Ok"
    /\ dump_kind' = "dump_dirty"
    /\ pc' = "dumped"
    /\ UNCHANGED <<regions, memory_state, restore_args, restored>>
    /\ UNCHANGED upf_vars

\* ... into a fresh file.
DumpDirty == DumpDirtyInto(EmptyFile)

\* ... into a fresh file that may fail one of the first seeks.
DumpDirtyFaulty == \E n \in 0 .. MaxSeekFault : DumpDirtyInto(FaultyFile(n))

\* ------------------------------------------------------------ expectations
\* Where region `slot` starts in a dump stream: the sizes of the regions
\* before it, added up.
StreamOffset(slot) == SumSeq([k \in 1 .. slot - 1 |-> regions[k].size])

\* The dirty pages of the region in `slot` under the bitmap of the call.
DirtyPages(slot) == DirtyPagesOf(dirty_bitmap[slot]) \cap (0 .. NumPages(slot) - 1)

RECURSIVE SortedSeq(_)
SortedSeq(S) ==
    IF S = {} THEN << >>
    ELSE LET m == CHOOSE x \in S : \A y \in S : x <= y
         IN  <<m>> \o SortedSeq(S \ {m})

\* The maximal runs of consecutive dirty pages of a region, in ascending
\* order, each as <<first page, last page>>.
RunStarts(D) == SortedSeq({p \in D : p - 1 \notin D})
RunEnds(D) == SortedSeq({p \in D : p + 1 \notin D})
MaximalRuns(D) ==
    LET starts == RunStarts(D)
        ends == RunEnds(D)
    IN  [i \in 1 .. Len(starts) |-> <<starts[i], ends[i]>>]

\* One seek and one write per run.
RECURSIVE RunCalls(_, _)
RunCalls(slot, runs) ==
    IF runs = << >> THEN << >>
    ELSE LET first == Head(runs)[1]
             last == Head(runs)[2]
             at == StreamOffset(slot) + first * PageSize
         IN  << <<"seek", at>>, <<"write", at, (last - first + 1) * PageSize>> >>
                \o RunCalls(slot, Tail(runs))

RECURSIVE ExpectedDirtyLog(_)
ExpectedDirtyLog(slot) ==
    IF slot > NumRegions THEN << >>
    ELSE RunCalls(slot, MaximalRuns(DirtyPages(slot))) \o ExpectedDirtyLog(slot + 1)

DirtyDumpOk == dump_kind = "dump_dirty" /\ dump_result = "Ok"
FullDumpOk == dump_kind = "dump" /\ dump_result = "Ok"

\* ------------------------------------------------------------------ claims
\* C1: describe returns one region state per region, in iteration order,
\* with the region's base address and size and, as offset, the sum of the
\* sizes of the regions before it; address gaps add nothing.
C1_DescribePrefixSums ==
    pc # "live" =>
        /\ Len(memory_state) = NumRegions
        /\ \A i \in Slots :
              memory_state[i] = [base_address |-> regions[i].base_address,
                                 size |-> regions[i].size,
                                 offset |-> StreamOffset(i)]

C1_Witness ==
    /\ pc = "described"
    /\ NumRegions >= 2
    /\ regions[2].base_address > regions[1].base_address + regions[1].size
    /\ memory_state[2].offset = regions[1].size

\* C2: a successful dump_dirty writes exactly the bytes of the dirty pages:
\* stream byte StreamOffset(r) + p * PageSize + x holds byte x of page p of
\* region r iff page p is dirty, no other stream byte is written, and every
\* maximal run of dirty pages is one seek followed by one write of the run.
C2_DirtyDumpExact ==
    DirtyDumpOk =>
        /\ \A r \in Slots :
              LET dirty == DirtyPages(r)
                  start == StreamOffset(r)
              IN  \A p \in 0 .. NumPages(r) - 1 : \A x \in 0 .. PageSize - 1 :
                     LET at == start + p * PageSize + x
                     IN  IF p \in dirty
                         THEN at \in DOMAIN writer.data
                              /\ writer.data[at] = RegionByte(r, p * PageSize + x)
                         ELSE at \notin DOMAIN writer.data
        /\ DOMAIN writer.data \subseteq 0 .. TotalSize - 1
        /\ writer.log = ExpectedDirtyLog(1)

C2_Witness ==
    /\ DirtyDumpOk
    /\ NumRegions >= 2
    /\ \E r \in Slots :
          \* a run across the word boundary
          /\ NumPages(r) > WordBits
          /\ {WordBits - 1, WordBits} \subseteq DirtyPages(r)
          /\ 0 \notin DirtyPages(r)
    /\ \E r \in Slots :
          \* a run still open when the bitmap ends
          /\ NumPages(r) = WordBits
          /\ WordBits - 1 \in DirtyPages(r)
          /\ 0 \notin DirtyPages(r)
          /\ r < NumRegions

\* Every page of every region is marked dirty, and no bit past a last page.
AllDirty ==
    \A s \in Slots : DirtyPagesOf(dirty_bitmap[s]) = 0 .. NumPages(s) - 1

\* C21: with regions of whole pages and every page marked dirty, dump_dirty
\* into an empty file leaves the file dump leaves: the same length and the
\* same byte at every position; it does so with one seek and one write per
\* region, each write the whole region at the region's place in the stream.
C21_AllDirtyEqualsDump ==
    (pc = "dumped" /\ dump_kind = "dump_dirty" /\ writer.fail_seek = 0 /\ AllDirty
       /\ \A s \in Slots : region_len(s) % PageSize = 0) =>
        LET full == dump(EmptyFile)
        IN  /\ dump_result = "Ok" /\ ~full.err
            /\ writer.len = full.w.len
            /\ writer.pos = full.w.pos
            /\ writer.data = full.w.data
            /\ \A b \in 0 .. full.w.len - 1 : FileByte(writer, b) = FileByte(full.w, b)
            /\ Len(writer.log) = 2 * NumRegions
            /\ \A s \in Slots :
                  /\ writer.log[2 * s - 1] = <<"seek", StreamOffset(s)>>
                  /\ writer.log[2 * s] = <<"write", StreamOffset(s), region_len(s)>>

C21_Witness ==
    /\ pc = "dumped" /\ DirtyDumpOk /\ AllDirty
    /\ NumRegions >= 2
    /\ NumPages(1) > WordBits
    /\ writer.len = TotalSize
    /\ writer.log[3] = <<"seek", region_len(1)>>

\* The stream position right after the last dirty page, 0 when no page of
\* any region is dirty.
DirtyEnds ==
    UNION {{StreamOffset(r) + (p + 1) * PageSize : p \in DirtyPages(r)} : r \in Slots}
LastDirtyEnd ==
    LET ends == DirtyEnds
    IN  IF ends = {} THEN 0 ELSE CHOOSE e \in ends : \A f \in ends : f <= e

\* C3 (amended): after a successful dump_dirty into an empty file the
\* stream ends right after the last dirty page (length 0 for the all-clean
\* bitmap); it never exceeds the length of a full dump and reaches it
\* exactly when the last page of the last region is dirty.
C3_DirtyDumpLength ==
    DirtyDumpOk =>
        /\ writer.len = LastDirtyEnd
        /\ writer.len <= TotalSize
        /\ (writer.len = TotalSize) <=>
              (NumPages(NumRegions) - 1 \in DirtyPages(NumRegions))

C3_Witness ==
    /\ DirtyDumpOk
    /\ NumRegions >= 2
    /\ writer.len > 0
    /\ writer.len < TotalSize
    /\ NumPages(NumRegions) - 1 \notin DirtyPages(NumRegions)
    /\ DirtyPages(NumRegions) # {}

\* C3 as stated: after a successful dump_dirty into an empty file the
\* stream is as long as a full dump, whatever the bitmap.
C3_Original == DirtyDumpOk => writer.len = TotalSize

\* C4: a successful dump writes every region in full, in order and without
\* gaps: region i occupies [StreamOffset(i), StreamOffset(i) + size(i)) and
\* the bytes written add up to the sum of the sizes.
C4_FullDumpContiguous ==
    FullDumpOk =>
        /\ writer.len = TotalSize
        /\ writer.pos = TotalSize
        /\ DOMAIN writer.data = 0 .. TotalSize - 1
        /\ \A r \in Slots :
              LET start == StreamOffset(r)
              IN  \A b \in 0 .. region_len(r) - 1 :
                     writer.data[start + b] = RegionByte(r, b)
        /\ writer.log = [r \in Slots |-> <<"write", StreamOffset(r), region_len(r)>>]

C4_Witness ==
    /\ FullDumpOk
    /\ NumRegions >= 2
    /\ regions[2].base_address > regions[1].base_address + regions[1].size
    /\ NumPages(1) > WordBits
    /\ writer.data[StreamOffset(2)] = RegionByte(2, 0)

\* GuestMemoryMmap::restore(..) with the state describe returned and, as
\* memory file, nothing or the file of the dump.  The layered calls are made
\* on a single region over an anonymous or fully dumped base.
\* ---------------------------------------------------- restore expectations
RestoreDone == pc = "restored"
RestoreOk == RestoreDone /\ restored.status = "Ok"
NoLayers == restore_args.overlay_file_path = "" /\ restore_args.ws_file_path = ""

\* The ranges of a list that cover page p.
Covering(ranges, p) ==
    {k \in DOMAIN ranges : ranges[k][1] <= p /\ p < ranges[k][1] + ranges[k][2]}

\* The pages of the ranges before the k-th, added up.
PagesBefore(ranges, k) == SumSeq([i \in 1 .. k - 1 |-> ranges[i][2]])

\* What the base layer shows at byte b of the region.
BaseByte(b) == IF restore_args.mem_file_path = "" THEN 0 ELSE FileByte(writer, b)

\* C5 as stated: restore with a state of more than one region returns an
\* error to its caller; it neither panics nor returns a collection.
C5_Original ==
    (RestoreDone /\ Len(restore_args.state.regions) > 1) => restored.status = "Err"

\* C6: round trip of a single region: restore from the file dump wrote, with
\* the state describe returned and no overlay or working-set file, returns
\* one region with the same base address and size and the same bytes.
C6_RoundTrip ==
    (RestoreDone /\ FullDumpOk /\ NumRegions = 1 /\ NoLayers
        /\ restore_args.mem_file_path = "mem") =>
        /\ restored.status = "Ok"
        /\ restored.regions = << [base_address |-> regions[1].base_address,
                                  size |-> regions[1].size] >>
        /\ \A b \in 0 .. region_len(1) - 1 : RestoredByte(b) = RegionByte(1, b)

C6_Witness ==
    /\ RestoreOk /\ FullDumpOk /\ NumRegions = 1 /\ NoLayers
    /\ restore_args.mem_file_path = "mem"
    /\ NumPages(1) > WordBits
    /\ RestoredByte(region_len(1) - 1) = RegionByte(1, region_len(1) - 1)

\* The collection and bitmap of test_restore_memory, case 2: two regions
\* of two pages each with a one-page gap; page 0 of the first and page 1 of
\* the second are dirty.
TestScenario ==
    /\ regions = << [base_address |-> 0, size |-> 2 * PageSize],
                    [base_address |-> 3 * PageSize, size |-> 2 * PageSize] >>
    /\ dirty_bitmap = << <<{0}>>, <<{1}>> >>

\* C7 as stated, on the scenario the test and the spec use: restoring from
\* the file dump_dirty wrote gives, in every region, the original contents
\* on the dirty pages and zeros on the others.
C7_Original ==
    (RestoreDone /\ DirtyDumpOk /\ NoLayers /\ restore_args.mem_file_path = "mem"
        /\ TestScenario) =>
        /\ restored.status = "Ok"
        /\ Len(restored.regions) = NumRegions
        /\ \A r \in Slots :
              LET dirty == DirtyPages(r)
              IN  \A p \in 0 .. NumPages(r) - 1 : \A x \in 0 .. PageSize - 1 :
                     RestoredByte(StreamOffset(r) + p * PageSize + x)
                        = IF p \in dirty THEN RegionByte(r, p * PageSize + x) ELSE 0

\* C8: after a successful restore with an overlay file and no working-set
\* file, a page inside some overlay range shows the overlay file's bytes at
\* the page's own offset, and every other page shows the base layer.
C8_OverlayContents ==
    (RestoreOk /\ restore_args.overlay_file_path # "" /\ restore_args.ws_file_path = "") =>
        \A p \in 0 .. BasePages(restored.size) - 1 : \A x \in 0 .. PageSize - 1 :
            RestoredByte(p * PageSize + x)
                = IF Covering(restore_args.overlay_regions, p) # {}
                  THEN FileContent("overlay", p * PageSize + x)
                  ELSE BaseByte(p * PageSize + x)

C8_Witness ==
    /\ RestoreOk
    /\ restore_args.overlay_file_path # "" /\ restore_args.ws_file_path = ""
    /\ restore_args.mem_file_path = "mem"
    /\ Len(restore_args.overlay_regions) = 2
    /\ Covering(restore_args.overlay_regions, 1) # {}
    /\ Covering(restore_args.overlay_regions, 0) = {}
    /\ RestoredByte(PageSize) = FileContent("overlay", PageSize)
    /\ RestoredByte(0) = RegionByte(1, 0)

\* C9: after a successful restore with a working-set file, the k-th range
\* [o_k, l_k] maps guest pages o_k .. o_k + l_k - 1 to the working-set file
\* from byte page_size * (l_1 + .. + l_(k-1)), whatever o_k is; a page shows
\* those bytes unless a later range covers it too.
C9_WsRunningOffset ==
    (RestoreOk /\ restore_args.ws_file_path # "") =>
        LET ranges == restore_args.ws_regions
            calls == SelectSeq(restored.calls, LAMBDA c : c.layer = "ws")
        IN  /\ Len(calls) = Len(ranges)
            /\ \A k \in DOMAIN ranges :
                  calls[k] = [layer |-> "ws", page |-> ranges[k][1],
                              pages |-> ranges[k][2],
                              file_off |-> PageSize * PagesBefore(ranges, k)]
            /\ \A p \in 0 .. BasePages(restored.size) - 1 :
                  LET cover == Covering(ranges, p)
                  IN  cover # {} =>
                        LET k == CHOOSE c \in cover : \A d \in cover : d <= c
                        IN  \A x \in 0 .. PageSize - 1 :
                               RestoredByte(p * PageSize + x)
                                 = FileContent("ws", PageSize * PagesBefore(ranges, k)
                                                  + (p - ranges[k][1]) * PageSize + x)

C9_Witness ==
    /\ RestoreOk /\ restore_args.ws_file_path # ""
    /\ Len(restore_args.ws_regions) = 2
    /\ restore_args.ws_regions[1][1] > restore_args.ws_regions[2][1]
    /\ restore_args.ws_regions[2][1] = 0
    /\ restored.calls[Len(restored.calls)].file_off = PageSize * restore_args.ws_regions[1][2]
    /\ RestoredByte(0) = FileContent("ws", PageSize * restore_args.ws_regions[1][2])

\* C10 as stated: every overlay and working-set mapping restore establishes
\* lies inside the base layer's host range, whatever ranges the caller gives.
C10_Original ==
    RestoreDone /\ restored.status \in {"Ok", "Err"} /\ "calls" \in DOMAIN restored =>
        \A i \in DOMAIN restored.calls :
            /\ restored.calls[i].page >= 0
            /\ (restored.calls[i].page + restored.calls[i].pages) * PageSize <= restored.size

\* The ranges of a layer that cover page p; none when the layer has no file.
OverlayCover(p) ==
    IF restore_args.overlay_file_path = "" THEN {}
    ELSE Covering(restore_args.overlay_regions, p)
WsCover(p) ==
    IF restore_args.ws_file_path = "" THEN {}
    ELSE Covering(restore_args.ws_regions, p)

\* C17: after a successful restore the layers take precedence in the order
\* base, overlay, working set: a page some working-set range covers shows
\* the working-set file, at the place of the last such range in ws_regions,
\* also when an overlay range covers it; a page only overlay ranges cover
\* shows the overlay file; a page no range covers shows the base layer.
C17_LayerPrecedence ==
    RestoreOk =>
        \A p \in 0 .. BasePages(restored.size) - 1 :
            LET ws == WsCover(p)
                ov == OverlayCover(p)
                page == restored.space[p]
            IN  IF ws # {}
                THEN LET k == CHOOSE c \in ws : \A d \in ws : d <= c
                     IN  /\ page.file = "ws"
                         /\ page.off = PageSize * (PagesBefore(restore_args.ws_regions, k)
                                                    + p - restore_args.ws_regions[k][1])
                ELSE IF ov # {}
                THEN page.file = "overlay"
                ELSE /\ page.file = (IF restore_args.mem_file_path = "" THEN "anon"
                                     ELSE restore_args.mem_file_path)
                     /\ page.off = p * PageSize

C17_Witness ==
    /\ RestoreOk
    /\ OverlayCover(0) # {} /\ WsCover(0) # {}
    /\ OverlayCover(1) # {} /\ WsCover(1) = {}
    /\ restored.space[0].file = "ws" /\ restored.space[1].file = "overlay"
    /\ RestoredByte(0) = FileContent("ws", 0)
    /\ RestoredByte(0) # FileContent("overlay", 0)

\* The orders in which a map with the entries of m can be iterated.
IterationOrders(m) ==
    {[i \in DOMAIN m |-> m[f[i]]] :
        f \in {g \in [DOMAIN m -> DOMAIN m] : \A i, j \in DOMAIN m : i # j => g[i] # g[j]}}

\* C22: what a restore call with an overlay file produces does not depend on
\* the order in which overlay_regions is iterated: in every other order the
\* call ends the same way, and when it succeeds every page is backed by the
\* same bytes, also where ranges overlap.
C22_OverlayOrderFree ==
    RestoreDone /\ restore_args.overlay_file_path # "" =>
        \A order \in IterationOrders(restore_args.overlay_regions) :
            LET other == restore([restore_args EXCEPT !.overlay_regions = order])
            IN  /\ other.status = restored.status
                /\ restored.status = "Err" => other.error = restored.error
                /\ restored.status = "Ok" =>
                      /\ other.regions = restored.regions
                      /\ \A q \in DOMAIN restored.space :
                            /\ other.space[q] = restored.space[q]
                            /\ \A x \in 0 .. PageSize - 1 :
                                  MappedByte(other.space[q], x, restored.size)
                                     = MappedByte(restored.space[q], x, restored.size)

C22_Witness ==
    /\ RestoreOk /\ restore_args.overlay_file_path # ""
    /\ restore_args.ws_file_path = ""
    /\ Len(restore_args.overlay_regions) = 2
    /\ restore_args.overlay_regions[1][1] > restore_args.overlay_regions[2][1]
    /\ Cardinality(OverlayCover(1)) = 2
    /\ RestoredByte(PageSize) = FileContent("overlay", PageSize)

\* The fixed mappings a restore call asks for, in the order of the code: the
\* overlay ranges, then the working-set ranges, each layer only with a path.
RequestedMappings ==
    (IF restore_args.overlay_file_path = "" THEN << >>
     ELSE [i \in DOMAIN restore_args.overlay_regions |->
              [layer |-> "overlay", page |-> restore_args.overlay_regions[i][1],
               pages |-> restore_args.overlay_regions[i][2]]])
    \o (IF restore_args.ws_file_path = "" THEN << >>
        ELSE [i \in DOMAIN restore_args.ws_regions |->
                 [layer |-> "ws", page |-> restore_args.ws_regions[i][1],
                  pages |-> restore_args.ws_regions[i][2]]])

\* The requests mmap refuses: an empty or negative length, a negative file
\* offset (an overlay range that starts before the region).
Refused(m) == m.pages <= 0 \/ (m.layer = "overlay" /\ m.page < 0)

NoFlags == [enable_user_page_faults |-> FALSE, load_ws |-> FALSE, fadvise |-> ""]
FlagChoices ==
    [enable_user_page_faults : BOOLEAN, load_ws : BOOLEAN, fadvise : {"", "WILLNEED"}]

RestoreWith(flags) ==
    /\ pc \in {"described", "dumped"}
    /\ \E mem_file_path \in {"", "mem"},
          overlay_file_path \in {"", "overlay"},
          ws_file_path \in {"", "ws"},
          past_eof \in {"refused", "mapped"} :
          /\ mem_file_path = "mem" => pc = "dumped" /\ dump_result = "Ok"
          /\ past_eof = "refused" \/
                (mem_file_path = "mem" /\ NumRegions = 1 /\ writer.len < TotalSize)
          /\ \E io \in IF NumRegions = 1 /\ dump_kind # "dump_dirty"
                       THEN LayerInputs(NumPages(1)) ELSE PlainInputs :
                /\ (io[1] # << >> \/ io[2] # << >>) \/
                      (overlay_file_path = "" /\ ws_file_path = "")
                /\ LET args == [mem_file_path |-> mem_file_path,
                                state |-> [regions |-> memory_state],
                                enable_user_page_faults |-> flags.enable_user_page_faults,
                                load_ws |-> flags.load_ws,
                                fadvise |-> flags.fadvise,
                                overlay_file_path |-> overlay_file_path,
                                overlay_regions |-> io[1],
                                ws_file_path |-> ws_file_path,
                                ws_regions |-> io[2],
                                past_eof |-> past_eof]
                   IN  /\ restore_args' = args
                       /\ restored' = restore(args)
    /\ pc' = "restored"
    /\ UNCHANGED <<regions, memory_state, dirty_bitmap, writer,
                   dump_kind, dump_result>>
    /\ UNCHANGED upf_vars

Restore == RestoreWith(NoFlags)

RestoreAnyFlags == \E flags \in FlagChoices : RestoreWith(flags)

\* Restores, with every choice of the three arguments, of one region of
\* RegionPages' smallest size.
InitFlags ==
    /\ regions \in {Layout(<<2>>, 0)}
    /\ pc = "live"
    /\ memory_state = << >>
    /\ dirty_bitmap = << >>
    /\ writer = EmptyFile
    /\ dump_kind = "none"
    /\ dump_result = "none"
    /\ restore_args = << >>
    /\ restored = NoRestore
    /\ UpfIdle

NextFlags == Describe \/ Dump \/ RestoreAnyFlags

SpecFlags == InitFlags /\ [][NextFlags]_vars

\* C20: the outcome of restore is the same for every value of
\* enable_user_page_faults, load_ws and fadvise: the same result, the same
\* mappings in the same order; and restore starts no thread and reads no
\* page.
C20_FlagsIgnored ==
    RestoreDone =>
        /\ \A flags \in FlagChoices :
              restore([restore_args EXCEPT
                          !.enable_user_page_faults = flags.enable_user_page_faults,
                          !.load_ws = flags.load_ws,
                          !.fadvise = flags.fadvise]) = restored
        /\ restored.status = "Ok" => restored.threads = {} /\ restored.touched = {}

C20_Witness ==
    /\ RestoreOk
    /\ restore_args.load_ws /\ restore_args.enable_user_page_faults
    /\ restore_args.fadvise # ""
    /\ restore_args.ws_file_path # "" /\ restore_args.ws_regions # << >>
    /\ restored.calls # << >>

\* ----------------------------------------------- region sizes, device errors
\* Collections whose regions need not end on a page boundary: sizes of one
\* page and a byte, two pages, and two pages and a byte, back to back.
EdgeSizes == {PageSize + 1, 2 * PageSize, 2 * PageSize + 1}
EdgeLayouts ==
    {[i \in DOMAIN sizes |->
         [base_address |-> SumSeq(SubSeq(sizes, 1, i - 1)), size |-> sizes[i]]] :
       sizes \in SeqsOf(EdgeSizes, 1, MaxRegions)}

InitEdge ==
    /\ regions \in EdgeLayouts
    /\ pc = "live"
    /\ memory_state = << >>
    /\ dirty_bitmap = << >>
    /\ writer = EmptyFile
    /\ dump_kind = "none"
    /\ dump_result = "none"
    /\ restore_args = << >>
    /\ restored = NoRestore
    /\ UpfIdle

NextEdge == Describe \/ Dump \/ DumpDirtyFaulty

SpecEdge == InitEdge /\ [][NextEdge]_vars

PartialRegions == {s \in Slots : region_len(s) % PageSize # 0}

\* C15 as stated: a region whose size is not a multiple of the page size is
\* dumped correctly by dump and by dump_dirty; with its last, partial page
\* dirty, dump_dirty succeeds and the file holds the bytes of the dirty
\* pages that lie inside the regions, and nothing past the end of the stream.
C15_Original ==
    pc = "dumped" /\ writer.fail_seek = 0 /\ PartialRegions # {} =>
        /\ dump_result = "Ok"
        /\ writer.len <= TotalSize
        /\ \A s \in Slots : \A b \in 0 .. region_len(s) - 1 :
              dump_kind = "dump" \/ (b \div PageSize) \in DirtyPages(s) =>
                 FileByte(writer, StreamOffset(s) + b) = RegionByte(s, b)

\* C16 as stated: a seek that fails during dump_dirty is returned to the
\* caller as Err(WriteMemory).
C16_Original ==
    pc = "dumped" /\ dump_kind = "dump_dirty"
       /\ (\E i \in DOMAIN writer.log : writer.log[i][1] = "seek failed")
    => dump_result = "WriteMemory"

\* ------------------------------------------------ register_for_upf (333-365)
\* The host address of a region's first byte, get_host_address(start_addr):
\* regions are mapped apart from each other.
HostAddr(slot) == slot * PageSize * (WordBits + 2)
PageOfAddr(slot, addr) == (addr - HostAddr(slot)) \div PageSize

\* The statements of the closure, in program order; "end" leaves the closure
\* and drops its listener, its stream and its descriptor.
next_step_send_first(step) ==
    CASE step = "create" -> "bind"
      [] step = "bind" -> "accept"
      [] step = "accept" -> "send"
      [] step = "send" -> "register"
      [] step = "register" -> "touch"
      [] step = "touch" -> "end"
next_step(step) ==
    CASE step = "create" -> "register"
      [] step = "register" -> "bind"
      [] step = "bind" -> "accept"
      [] step = "accept" -> "send"
      [] step = "send" -> "touch"
      [] step = "touch" -> "end"

\* listener.accept() returns a stream only once a connection is pending.
AcceptAlways(pending) == TRUE
AcceptReady(pending) == pending > 0

\* The byte the closure reads after the transfer: *addr.
touched_addr_second_page(addr, len) == addr + PageSize
touched_addr(addr, len) == addr

\* A userfaultfd descriptor covers the page once its range is registered.
Registered(slot, page) ==
    \E i \in DOMAIN uffds :
        /\ uffds[i].slot = slot /\ uffds[i].range # << >>
        /\ uffds[i].range[1] <= HostAddr(slot) + page * PageSize
        /\ HostAddr(slot) + (page + 1) * PageSize <= uffds[i].range[1] + uffds[i].range[2]

\* What a first access to a page does: nothing when the page is present, a
\* fault event at the descriptor when the page is missing from a registered
\* range, and a fill by the kernel otherwise.
access(slot, page) ==
    IF <<slot, page>> \in resident THEN "hit"
    ELSE IF Registered(slot, page) THEN "fault" ELSE "page_in"

\* trace holds the statements register_for_upf has executed; present tells
\* whether the page a read went to was in the page tables before the read.
Entry(op, slot, addr, out, present) ==
    [op |-> op, slot |-> slot, addr |-> addr, out |-> out, present |-> present]
Log(op, slot, addr, out) == trace' = Append(trace, Entry(op, slot, addr, out, FALSE))

\* expect() and unwrap() on an Err: the thread panics, the call returns
\* nothing and the closure's listener is dropped on the way out.
Panic(step, injected) ==
    /\ upf_pc' = "panicked"
    /\ upf_result' = [status |-> "panic", at |-> step, slot |-> upf_slot,
                      injected |-> injected]
    /\ Log(step, upf_slot, HostAddr(upf_slot), "failed")

Proceed(step) ==
    /\ upf_pc' = next_step(step)
    /\ Log(step, upf_slot, HostAddr(upf_slot), "ok")

RegisterForUpf ==
    /\ upf_pc = "idle" /\ NumRegions >= 1
    /\ upf_pc' = "create" /\ upf_slot' = 1
    /\ UNCHANGED <<upf_result, uffds, sock, peer, resident, faulting, loader, trace>>
    /\ UNCHANGED core_vars

UpfCreate(ok) ==
    /\ upf_pc = "create"
    /\ IF ok
       THEN /\ uffds' = Append(uffds, [slot |-> upf_slot, close_on_exec |-> TRUE,
                                          non_blocking |-> TRUE, range |-> << >>])
               /\ Proceed("create")
               /\ UNCHANGED upf_result
          ELSE Panic("create", TRUE) /\ UNCHANGED uffds
    /\ UNCHANGED <<upf_slot, sock, peer, resident, faulting, loader>>
    /\ UNCHANGED core_vars

UpfRegister(ok) ==
    /\ upf_pc = "register"
    /\ IF ok
          THEN /\ uffds' = [uffds EXCEPT ![Len(uffds)].range =
                                <<HostAddr(upf_slot), region_len(upf_slot)>>]
               /\ Proceed("register")
               /\ UNCHANGED upf_result
          ELSE Panic("register", TRUE) /\ UNCHANGED uffds
    /\ UNCHANGED <<upf_slot, sock, peer, resident, faulting, loader>>
    /\ UNCHANGED core_vars

\* UnixListener::bind creates the socket file: it fails when the path exists.
UpfBind(ok) ==
    /\ upf_pc = "bind"
    /\ IF ok /\ sock = "absent"
          THEN /\ sock' = "listening"
               /\ Proceed("bind")
               /\ UNCHANGED upf_result
          ELSE Panic("bind", sock = "absent") /\ UNCHANGED sock
    /\ UNCHANGED <<upf_slot, uffds, peer, resident, faulting, loader>>
    /\ UNCHANGED core_vars

UpfAccept(ok) ==
    /\ upf_pc = "accept"
    /\ IF ok
       THEN /\ AcceptReady(peer.pending)
            /\ peer' = [peer EXCEPT !.pending = @ - 1, !.accepted = @ + 1]
            /\ Proceed("accept")
            /\ UNCHANGED <<upf_result, sock>>
       ELSE /\ Panic("accept", TRUE)
            /\ sock' = "stale"
            /\ peer' = [peer EXCEPT !.pending = 0]
    /\ UNCHANGED <<upf_slot, uffds, resident, faulting, loader>>
    /\ UNCHANGED core_vars

UpfSend(ok) ==
    /\ upf_pc = "send"
    /\ IF ok
          THEN /\ peer' = [peer EXCEPT !.inbox =
                              Append(@, [conn |-> peer.accepted, fd |-> Len(uffds)])]
               /\ Proceed("send")
               /\ UNCHANGED <<upf_result, sock>>
          ELSE /\ Panic("send", TRUE)
               /\ sock' = "stale"
               /\ peer' = [peer EXCEPT !.pending = 0]
    /\ UNCHANGED <<upf_slot, uffds, resident, faulting, loader>>
    /\ UNCHANGED core_vars

\* print!(.., *addr, ..): the read of the region's first byte. A fault at a
\* registered range suspends the thread until the page has been provided.
UpfTouch ==
    /\ upf_pc = "touch"
    /\ LET addr == touched_addr(HostAddr(upf_slot), region_len(upf_slot))
           page == PageOfAddr(upf_slot, addr)
           out == access(upf_slot, page)
       IN  /\ trace' = Append(trace, Entry("touch", upf_slot, addr, out,
                                            <<upf_slot, page>> \in resident))
           /\ upf_pc' = IF out = "fault" THEN "faulted" ELSE next_step("touch")
           /\ faulting' = IF out = "fault" THEN faulting \cup {<<upf_slot, page>>}
                          ELSE faulting
           /\ resident' = IF out = "page_in" THEN resident \cup {<<upf_slot, page>>}
                          ELSE resident
    /\ UNCHANGED <<upf_slot, upf_result, uffds, sock, peer, loader>>
    /\ UNCHANGED core_vars

UpfResume ==
    /\ upf_pc = "faulted"
    /\ \E i \in DOMAIN trace :
          /\ trace[i].op = "touch"
          /\ trace[i].slot = upf_slot
          /\ <<upf_slot, PageOfAddr(upf_slot, trace[i].addr)>> \in resident
    /\ upf_pc' = next_step("touch")
    /\ UNCHANGED <<upf_slot, upf_result, uffds, sock, peer, resident, faulting,
                   loader, trace>>
    /\ UNCHANGED core_vars

\* Ok(()) of the closure: with_regions goes on to the next region, and the
\* call returns Ok(()) after the last one.
UpfEnd ==
    /\ upf_pc = "end"
    /\ sock' = "stale"
    /\ peer' = [peer EXCEPT !.pending = 0]
    /\ IF upf_slot < NumRegions
       THEN upf_slot' = upf_slot + 1 /\ upf_pc' = "create" /\ UNCHANGED upf_result
       ELSE upf_pc' = "returned" /\ upf_result' = [status |-> "Ok"]
                                 /\ UNCHANGED upf_slot
    /\ UNCHANGED <<uffds, resident, faulting, loader, trace>>
    /\ UNCHANGED core_vars

\* ------------------------------------------------ load_working_set (367-389)
\* The reads of one region, in order: for each item, one per page of
\* [item[0], item[0] + item[1]).
RECURSIVE touches_of(_, _)
touches_of(slot, ws_regions) ==
    IF ws_regions = << >> THEN << >>
    ELSE LET item == Head(ws_regions)
         IN  [i \in 1 .. Max(item[2], 0) |-> <<slot, item[1] + i - 1>>]
                \o touches_of(slot, Tail(ws_regions))

RECURSIVE load_from(_, _)
load_from(slot, ws_regions) ==
    IF slot > NumRegions THEN << >>
    ELSE touches_of(slot, ws_regions) \o load_from(slot + 1, ws_regions)

\* Working sets whose pages all lie inside every region: a read outside the
\* mapping is undefined and is left out.
LoaderInputs ==
    {w \in SeqsOf((0 .. 1) \X (1 .. MaxRangeLen), 1, 1) :
        \A i \in DOMAIN w : \A s \in Slots : w[i][1] + w[i][2] <= NumPages(s)}

LoadWorkingSet ==
    /\ loader.pc = "idle"
    /\ \E ws_regions \in LoaderInputs :
          loader' = [pc |-> "running", todo |-> load_from(1, ws_regions)]
    /\ UNCHANGED <<upf_pc, upf_slot, upf_result, uffds, sock, peer, resident,
                   faulting, trace>>
    /\ UNCHANGED core_vars

\* a ^= *(addr.offset(pos)): one read; after the last one the call returns.
LoaderTouch ==
    /\ loader.pc = "running" /\ loader.todo # << >>
    /\ LET pg == Head(loader.todo)
           out == access(pg[1], pg[2])
       IN  /\ faulting' = IF out = "fault" THEN faulting \cup {pg} ELSE faulting
           /\ resident' = IF out = "page_in" THEN resident \cup {pg} ELSE resident
           /\ loader' = IF out = "fault" THEN [loader EXCEPT !.pc = "faulted"]
                         ELSE [pc |-> IF Tail(loader.todo) = << >> THEN "returned"
                                      ELSE "running",
                               todo |-> Tail(loader.todo)]
    /\ UNCHANGED <<upf_pc, upf_slot, upf_result, uffds, sock, peer, trace>>
    /\ UNCHANGED core_vars

LoaderResume ==
    /\ loader.pc = "faulted" /\ Head(loader.todo) \in resident
    /\ loader' = [pc |-> IF Tail(loader.todo) = << >> THEN "returned" ELSE "running",
                  todo |-> Tail(loader.todo)]
    /\ UNCHANGED <<upf_pc, upf_slot, upf_result, uffds, sock, peer, resident,
                   faulting, trace>>
    /\ UNCHANGED core_vars

\* ------------------------------------------------------------- environment
\* A process connects to the socket while a listener is bound to it.
PeerConnect ==
    /\ sock = "listening" /\ peer.connects < MaxPeers
    /\ peer' = [peer EXCEPT !.connects = @ + 1, !.pending = @ + 1]
    /\ UNCHANGED <<upf_pc, upf_slot, upf_result, uffds, sock, resident, faulting,
                   loader, trace>>
    /\ UNCHANGED core_vars

\* The process that received a descriptor provides a page that faulted in
\* the descriptor's range.
PeerResolve ==
    /\ \E pg \in faulting :
          /\ \E i \in DOMAIN peer.inbox :
                uffds[peer.inbox[i].fd].slot = pg[1]
                   /\ uffds[peer.inbox[i].fd].range # << >>
          /\ faulting' = faulting \ {pg}
          /\ resident' = resident \cup {pg}
    /\ UNCHANGED <<upf_pc, upf_slot, upf_result, uffds, sock, peer, loader, trace>>
    /\ UNCHANGED core_vars

\* The guest writes to the first page of a region.
GuestWrite ==
    /\ \E slot \in Slots :
          /\ access(slot, 0) # "hit" /\ <<slot, 0>> \notin faulting
          /\ LET out == access(slot, 0)
             IN  /\ faulting' = IF out = "fault" THEN faulting \cup {<<slot, 0>>}
                                ELSE faulting
                 /\ resident' = IF out = "page_in" THEN resident \cup {<<slot, 0>>}
                                ELSE resident
    /\ UNCHANGED <<upf_pc, upf_slot, upf_result, uffds, sock, peer, loader, trace>>
    /\ UNCHANGED core_vars

\* register_for_upf and load_working_set on a collection of regions of
\* RegionPages' smallest size, the socket path free or left by an earlier run.
UpfLayouts ==
    {Layout(sizes, 0) : sizes \in SeqsOf({2}, 1, MaxRegions)}

InitUpf ==
    /\ regions \in UpfLayouts
    /\ pc = "live"
    /\ memory_state = << >>
    /\ dirty_bitmap = << >>
    /\ writer = EmptyFile
    /\ dump_kind = "none"
    /\ dump_result = "none"
    /\ restore_args = << >>
    /\ restored = NoRestore
    /\ upf_pc = "idle"
    /\ upf_slot = 0
    /\ upf_result = [status |-> "none"]
    /\ uffds = << >>
    /\ sock \in {"absent", "stale"}
    /\ peer = NoPeer
    /\ resident = {}
    /\ faulting = {}
    /\ loader = [pc |-> "idle", todo |-> << >>]
    /\ trace = << >>

UpfStep(ok) ==
    \/ UpfCreate(ok) \/ UpfRegister(ok) \/ UpfBind(ok) \/ UpfAccept(ok)
    \/ UpfSend(ok)

NextUpf ==
    \/ RegisterForUpf
    \/ \E ok \in BOOLEAN : UpfStep(ok)
    \/ UpfTouch \/ UpfResume \/ UpfEnd
    \/ LoadWorkingSet \/ LoaderTouch \/ LoaderResume
    \/ PeerConnect \/ PeerResolve \/ GuestWrite

\* The thread running register_for_upf keeps running: a call that can
\* succeed is not delayed forever. Nothing obliges a process to connect.
SpecUpf ==
    InitUpf /\ [][NextUpf]_vars
            /\ WF_vars(UpfStep(TRUE) \/ UpfTouch \/ UpfResume \/ UpfEnd)

\* ------------------------------------------- register_for_upf: the claims
StepsInOrder == <<"create", "register", "bind", "accept", "send", "touch">>
Touches == {i \in DOMAIN trace : trace[i].op = "touch"}
FullRange(slot) == <<HostAddr(slot), region_len(slot)>>

\* C11: the statements register_for_upf has executed are, region after
\* region, descriptor creation, registration of the range, bind, accept,
\* transfer of the descriptor and the read of the first byte, in this order
\* and without a gap; every descriptor a peer holds was registered before it
\* was sent.
C11_StepsInOrder ==
    /\ \A i \in DOMAIN trace :
          /\ trace[i].op = StepsInOrder[((i - 1) % Len(StepsInOrder)) + 1]
          /\ trace[i].slot = ((i - 1) \div Len(StepsInOrder)) + 1
          /\ i < Len(trace) => trace[i].out # "failed"
    /\ \A m \in DOMAIN peer.inbox :
          uffds[peer.inbox[m].fd].range = FullRange(uffds[peer.inbox[m].fd].slot)

C11_Witness ==
    /\ upf_result.status = "Ok"
    /\ Len(trace) = Len(StepsInOrder)
    /\ Len(peer.inbox) = 1

\* C12 as stated: a failure of descriptor creation, of the registration, of
\* bind or of accept makes register_for_upf return Err(UserPageFault).
C12_Original ==
    \A i \in DOMAIN trace :
        trace[i].out = "failed"
           /\ trace[i].op \in {"create", "register", "bind", "accept"}
        => upf_result = [status |-> "Err", error |-> "UserPageFault"]

\* C13: register_for_upf has no timeout. It leaves accept only with a
\* connection a peer made (or by a failure of accept itself), so while no
\* peer has connected nothing is sent, the first byte is not read and the
\* call has not returned; once a connection is accepted the descriptor is
\* eventually sent on it, unless the transfer itself fails.
C13_BlocksAtAccept ==
    /\ [](/\ peer.accepted <= peer.connects
          /\ Len(peer.inbox) <= peer.accepted
          /\ Cardinality(Touches) <= Len(peer.inbox)
          /\ upf_result.status \in {"Ok", "Err"} => peer.connects >= 1)
    /\ [][upf_pc = "accept" /\ upf_pc' # "accept" =>
             \/ peer'.accepted = peer.accepted + 1 /\ peer.pending >= 1
             \/ upf_result'.status = "panic" /\ upf_result'.at = "accept"]_vars
    /\ \A n \in 1 .. MaxPeers :
          (peer.accepted = n) ~>
             (Len(peer.inbox) >= n
                \/ (upf_result.status = "panic" /\ upf_result.at = "send"))

C13_Witness ==
    /\ upf_pc = "accept" /\ sock = "listening"
    /\ peer.connects = 0 /\ peer.inbox = << >> /\ Touches = {}

\* C18 as stated: register_for_upf on N >= 1 regions completes, unless a
\* call of its first region fails or a call is made to fail from outside,
\* and then it has made one descriptor per region, registered each region's
\* whole range, and sent every descriptor exactly once, one per connection.
C18_Original ==
    /\ upf_result.status = "panic" =>
          upf_result.injected \/ upf_result.slot = 1
    /\ upf_result.status = "Ok" =>
          /\ Len(uffds) = NumRegions
          /\ \A s \in Slots : uffds[s].slot = s /\ uffds[s].range = FullRange(s)
          /\ Len(peer.inbox) = NumRegions
          /\ \A s \in Slots : peer.inbox[s] = [conn |-> s, fd |-> s]

Next == Describe \/ Dump \/ DumpDirty \/ Restore

Spec == Init /\ [][Next]_vars
====
